---- MODULE Spec2Model ----
(***************************************************************************)
(* Resumable paginated collection of the Kitsune and ReMo backends:        *)
(* the live fetch (Kitsune.fetch, ReMo.fetch), the paginating clients      *)
(* (KitsuneClient.get_questions, get_question_answers, ReMoClient          *)
(* .get_items, .call), the cache queue and the replay from the cache       *)
(* (fetch_from_cache).                                                     *)
(*                                                                         *)
(* A run is a Python generator: every action below is the code between two *)
(* points where a transport request returns or the generator is suspended  *)
(* at a yield.  The remote source is a fixed list of `total` items with    *)
(* ids 0..total-1, served in pages of ITEMS_PER_PAGE; every transport      *)
(* request may also fail with an HTTP error status.                        *)
(***************************************************************************)
EXTENDS Integers, Sequences, FiniteSets, TLC

\* ---------------------------------------------------------------- bounds
MaxPages == 3          \* the source holds at most MaxPages pages of items
MaxLedgerLen == 3      \* length of a hand-made ledger given to a replay
MaxLedgerItems == 2    \* size of the source behind a hand-made ledger
MaxSkips == 2          \* pages skipped after a 500 answer in one run

\* ------------------------------------------------------ program constants
FIRST_PAGE == 1
ITEMS_PER_PAGE == 20
DEFAULT_OFFSET == 0
Unbound == -1          \* a local variable that was never assigned

\* the sizes of the source and the offsets explored: up to MaxPages pages,
\* at the page boundaries and inside a page
MaxItems == MaxPages * ITEMS_PER_PAGE - ITEMS_PER_PAGE + 5
Totals == {t \in 0..MaxItems : t % ITEMS_PER_PAGE \in {0, 1, 5}}
Offsets == {k \in 0..MaxItems : k % ITEMS_PER_PAGE \in {0, 5, ITEMS_PER_PAGE - 1}}

\* HTTP statuses a failed request can end with; the transport raises
\* HTTPError for each of them (200 is the status of a request that succeeds)
FailStatuses == {404, 500, 503}

Backends == {"kitsune", "remo"}

\* ------------------------------------------------------------ the source
Min(a, b) == IF a < b THEN a ELSE b

Range(lo, hi) == [i \in 1..(IF hi >= lo THEN hi - lo + 1 ELSE 0) |-> lo + i - 1]

\* pages the source serves: page 1 always exists (it may be empty)
NumPages(n) == IF n = 0 THEN 1 ELSE (n + ITEMS_PER_PAGE - 1) \div ITEMS_PER_PAGE

\* answers of question q, one per answers page
NumAnswers(q) == q % 3
AnswerPages(q) == IF NumAnswers(q) = 0 THEN 1 ELSE NumAnswers(q)
AnswerId(q, a) == 100 * (q + 1) + a

\* ------------------------------------------------------------- fragments
\* what the cache holds: the offset (an int) and raw JSON texts
OffsetMarker(k) == [kind |-> "offset", value |-> k, results |-> <<>>, next |-> FALSE]
PagePayload(p, n) ==
    [kind |-> "page", value |-> p,
     results |-> Range((p - FIRST_PAGE) * ITEMS_PER_PAGE,
                       Min((p - FIRST_PAGE + 1) * ITEMS_PER_PAGE, n) - 1),
     next |-> (p - FIRST_PAGE + 1) * ITEMS_PER_PAGE < n]
AnswersPayload(q, a) ==
    [kind |-> "answers", value |-> q,
     results |-> IF NumAnswers(q) = 0 THEN <<>> ELSE <<AnswerId(q, a)>>,
     next |-> a < NumAnswers(q)]
ItemPayload(i) == [kind |-> "item", value |-> i, results |-> <<>>, next |-> FALSE]
EndOfItem == [kind |-> "end", value |-> 0, results |-> <<>>, next |-> FALSE]

\* type(raw) is int
IsInt(f) == f.kind = "offset"
\* not json.loads(raw): the empty dict
IsEmptyDict(f) == f.kind = "end"
\* 'results' in json.loads(raw)
HasResults(f) == f.kind \in {"page", "answers"}
\* 'count' in json.loads(raw)
HasCount(f) == f.kind \in {"page", "answers"}

\* an item whose stamp is not the logical offset
ItemStampedZero(i, o, a) == [id |-> i, offset |-> 0, answers_data |-> a]

\* question['offset'] = current_offset; question['answers_data'] = ...
Item(i, o, a) == [id |-> i, offset |-> o, answers_data |-> a]

RECURSIVE Flatten(_)
Flatten(ss) == IF ss = <<>> THEN <<>> ELSE Head(ss).results \o Flatten(Tail(ss))

\* a client that yields no answers page
AnswersPagesNone(q, n) == <<>>

\* the answers pages 1..n of question q, as get_question_answers yields them
AnswersPages(q, n) == [a \in 1..n |-> AnswersPayload(q, a)]

Event(op, arg, st) == [op |-> op, arg |-> arg, status |-> st]

VARIABLES
    backend,        \* which collector
    total,          \* items the source holds
    hasCache,       \* self.cache is set
    pep479,         \* whether the interpreter turns a StopIteration raised
                    \* inside a generator into RuntimeError (Python >= 3.7)
                    \* or ends the generator: "yes" or "no", and "unknown"
                    \* until a run first depends on it
    plan,           \* the calls the caller makes, in order
    runs,           \* the calls made so far
    mode,           \* the call running: "fetch" or "cache"
    pc,             \* where the generator stands
    offset,         \* the offset argument of fetch
    page,           \* the collector's page (fetch, line 106)
    wpage,          \* the page the client requests next
    wstate,         \* the client generator: "fresh" or "yielded", or
                    \* "nonext" when the page it yielded has no 'next'
    wnext,          \* 'next' of the page the client yielded last
    drop_questions, \* drop_questions / drop_items
    current_offset, \* current_offset (fetch), offset (fetch_from_cache)
    questions,      \* results of the current page not yet looked at
    nquestions,     \* nquestions / nitems
    tquestions,     \* tquestions / titems
    equestions,     \* equestions
    cache_queue,    \* the cache queue (pushed, not yet flushed)
    ledger,         \* the cache
    pos,            \* fragments of the cache read by the replay
    emitted,        \* the items yielded by the running call
    dropped,        \* results skipped by the drop counter in this call
    error,          \* the exception that ended the call
    errcode,        \* its HTTP status
    log,            \* requests, emissions and cache operations of this call
    prev,           \* the outcome of the previous call
    wideOffset,     \* an offset argument of any size, in limbs
    translation,    \* the page and the drop count the code makes of it
    pulse,          \* flips at every page request made after MaxSkips pages
                    \* were lost: the counters are not followed further
    classified      \* an item given to metadata_category, and what came of it

vars == <<backend, total, hasCache, pep479, plan, runs, mode, pc, offset, page,
          wpage, wstate, wnext, drop_questions, current_offset, questions,
          nquestions, tquestions, equestions, cache_queue, ledger, pos,
          emitted, dropped, error, errcode, log, prev, wideOffset,
          translation, pulse, classified>>

\* what no step of a call changes
fixed == <<backend, total, hasCache, plan, wideOffset, translation, pulse,
           classified>>
walker == <<wpage, wstate, wnext>>
counters == <<nquestions, tquestions, equestions>>

\* ------------------------------------------------------------ wide integers
\* A Python int has no width.  An offset is kept here as two limbs: <<h, l>>
\* stands for h * Limb + l with 0 <= l < Limb, so that the offsets of the
\* size at which float division stops being exact can be written down.
LimbBits == 26
Limb == 2^LimbBits

Wide(n) == <<n \div Limb, n % Limb>>
Narrow(w) == w[1] * Limb + w[2]

\* a + b
WidePlus(a, b) == <<a[1] + b[1] + (a[2] + b[2]) \div Limb, (a[2] + b[2]) % Limb>>

\* a * ITEMS_PER_PAGE
WideTimesPage(a) ==
    <<a[1] * ITEMS_PER_PAGE + (a[2] * ITEMS_PER_PAGE) \div Limb,
      (a[2] * ITEMS_PER_PAGE) % Limb>>

\* a - b, for a and b less than Limb apart
WideMinus(a, b) == (a[1] - b[1]) * Limb + (a[2] - b[2])

\* the exact quotient and remainder of a by ITEMS_PER_PAGE
Quotient(a) ==
    <<a[1] \div ITEMS_PER_PAGE,
      ((a[1] % ITEMS_PER_PAGE) * Limb + a[2]) \div ITEMS_PER_PAGE>>
Remainder(a) == ((a[1] % ITEMS_PER_PAGE) * Limb + a[2]) % ITEMS_PER_PAGE

\* the position of the leading bit
RECURSIVE Log2(_)
Log2(n) == IF n <= 1 THEN 0 ELSE 1 + Log2(n \div 2)
WideLog2(a) == IF a[1] > 0 THEN LimbBits + Log2(a[1]) ELSE Log2(a[2])

\* ------------------------------------------------------ offset translation
\* significant bits of a Python float
MANT_DIG == 53

\* offset / ITEMS_PER_PAGE is a true division: its value is the float nearest
\* to q + r / ITEMS_PER_PAGE (q the exact quotient, r the remainder), ties going
\* to the even significand.  With the leading bit of q at position e, the
\* float keeps k = MANT_DIG - 1 - e bits of the fraction r / ITEMS_PER_PAGE.
FractionBits(a) == MANT_DIG - 1 - WideLog2(Quotient(a))

\* the fraction r / ITEMS_PER_PAGE rounded to k bits, in units of 2^-k; for
\* k > LimbBits it is not computed: it is then less than 2^k, as it is for
\* every k >= 4
RoundedFraction(a) ==
    LET k == FractionBits(a)
        n == Remainder(a) * 2^k
        f == n \div ITEMS_PER_PAGE
        twice == 2 * (n % ITEMS_PER_PAGE)
        odd == IF k = 0 THEN Quotient(a)[2] % 2 = 1 ELSE f % 2 = 1
    IN  IF twice > ITEMS_PER_PAGE \/ (twice = ITEMS_PER_PAGE /\ odd)
        THEN f + 1 ELSE f

\* int(offset / ITEMS_PER_PAGE), for 0 <= offset < ITEMS_PER_PAGE * 2^MANT_DIG:
\* int() cuts the fraction of the float off, and the float is q + 1 when the
\* fraction was rounded up to 1
IntDivWide(a) ==
    IF FractionBits(a) <= LimbBits /\ RoundedFraction(a) = 2^FractionBits(a)
    THEN WidePlus(Quotient(a), Wide(1))
    ELSE Quotient(a)

IntDiv(o) == Narrow(IntDivWide(Wide(o)))

\* Kitsune.fetch / ReMo.fetch: page = int(offset / ITEMS_PER_PAGE)
CollectorPageWide(a) == IntDivWide(a)
CollectorPage(o) == Narrow(CollectorPageWide(Wide(o)))

\* drop_questions = offset - page * ITEMS_PER_PAGE
DropCountWide(a) == WideMinus(a, WideTimesPage(CollectorPageWide(a)))

\* a collector that takes the offset itself for the drop count
DropCountWholeOffset(o) == o

\* a collector that drops nothing from its first page
DropCountNone(o) == 0

DropCount(o) == DropCountWide(Wide(o))

\* KitsuneClient.get_questions: page = FIRST_PAGE; if offset: page += ...
KitsuneFirstPageWide(a) ==
    IF a # Wide(0) THEN WidePlus(Wide(FIRST_PAGE), IntDivWide(a)) ELSE Wide(FIRST_PAGE)

\* a client that starts at the first page whatever the offset
KitsuneFirstPageIgnoringOffset(o) == FIRST_PAGE

KitsuneFirstPage(o) == Narrow(KitsuneFirstPageWide(Wide(o)))

\* ReMoClient.get_items: page = FIRST_PAGE; page += int(offset / ...)
ReMoFirstPageWide(a) == WidePlus(Wide(FIRST_PAGE), IntDivWide(a))
ReMoFirstPage(o) == Narrow(ReMoFirstPageWide(Wide(o)))

\* a handler that goes on after every HTTP error of a page request
AbsorbedWhateverStatus(s) == TRUE

\* Kitsune.fetch: the HTTP errors of a page request the loop goes on after
Absorbed(s) == s = 500

\* a skip that moves the offset to the start of the next page
SkipToPageStart(o) == (IntDiv(o) + 1) * ITEMS_PER_PAGE

\* Kitsune.fetch: current_offset += ITEMS_PER_PAGE after such an error
SkipPage(o) == o + ITEMS_PER_PAGE

\* ------------------------------------------------------------- the cache
\* _purge_cache_queue: a live run starts from an empty cache and queue
PurgedLedger(l) == <<>>
PurgedQueue(q) == <<>>

\* _push_cache_queue
Pushed(q, f) == Append(q, f)

\* a flush that puts the queue ahead of what the cache holds
FlushedLedgerAhead(l, q) == IF hasCache THEN q \o l ELSE l

\* _flush_cache_queue: the queue goes to the cache, in push order
FlushedLedger(l, q) == IF hasCache THEN l \o q ELSE l
FlushedQueue(q) == IF hasCache THEN <<>> ELSE q

\* ------------------------------------------------------------- the calls
Summary ==
    [mode |-> mode, offset |-> offset, emitted |-> emitted, pc |-> pc,
     error |-> error, errcode |-> errcode, lost |-> equestions, pos |-> pos]

NoCall ==
    [mode |-> "none", offset |-> 0, emitted |-> <<>>, pc |-> "idle",
     error |-> "none", errcode |-> 0, lost |-> 0, pos |-> 0]

Fetch(ks) == [op |-> "fetch", args |-> ks]
Replay == [op |-> "cache", args |-> {}]

\* ReMo.fetch, line 96
supported_categories == {"activities", "events", "users"}
\* a call of ReMo.fetch with a category argument
FetchAs(c, ks) == [op |-> "fetch", args |-> ks, category |-> c]
\* ReMo.fetch, line 86: category='events' when the caller gives none
CategoryOf(call) == IF "category" \in DOMAIN call THEN call.category ELSE "events"

\* a live run and a replay of what it left in the cache, by a caller that
\* may stop pulling from the live run at any item it was given
InterruptPlan == <<Fetch({DEFAULT_OFFSET, ITEMS_PER_PAGE + 5}), Replay>>

\* a generator the caller stops pulling from stays suspended at its yield and
\* runs no further code
CallerMayStop == plan = InterruptPlan

\* the caller makes its next call once the previous one has ended, or has
\* been given up
StartCall(op) ==
    /\ \/ pc \in {"idle", "done", "failed"}
       \/ pc = "yielded" /\ CallerMayStop
    /\ Len(runs) < Len(plan)
    /\ plan[Len(runs) + 1].op = op
    /\ runs' = Append(runs, op)
    /\ mode' = op
    /\ prev' = Summary
    /\ emitted' = <<>>
    /\ dropped' = 0
    /\ errcode' = 0
    /\ UNCHANGED <<fixed, pep479>>

Fail(kind, code) ==
    /\ pc' = "failed"
    /\ error' = kind
    /\ errcode' = code

\* the page the client generator asks for when it is pulled
NextPage == IF wstate = "fresh" THEN wpage ELSE wpage + 1
ClientGoesOn == wstate = "fresh" \/ (wstate = "yielded" /\ wnext)
\* questions_json['next'] of a page without that field: KeyError
ClientBreaks == wstate = "nonext"

\* ------------------------------------------------------- Kitsune.fetch
\* lines 96-112: purge, push the offset, translate it, create the client
KitsuneFetchBegin(k) ==
    /\ backend = "kitsune"
    /\ StartCall("fetch")
    /\ k \in plan[Len(runs) + 1].args
    /\ offset' = k
    /\ ledger' = PurgedLedger(ledger)
    /\ cache_queue' = Pushed(PurgedQueue(cache_queue), OffsetMarker(k))
    /\ log' = <<Event("purge", 0, 0), Event("push", OffsetMarker(k), 0)>>
    /\ nquestions' = 0 /\ tquestions' = 0 /\ equestions' = 0
    /\ page' = CollectorPage(k)
    /\ drop_questions' = DropCount(k)
    /\ current_offset' = k
    /\ wpage' = KitsuneFirstPage(k) /\ wstate' = "fresh" /\ wnext' = FALSE
    /\ questions' = <<>>
    /\ pos' = 0
    /\ error' = "none"
    /\ pc' = "pageloop"

\* lines 116, 317-318, 134-139: the page arrives, is pushed and parsed
KitsunePageOk ==
    /\ backend = "kitsune" /\ mode = "fetch" /\ pc = "pageloop"
    /\ ClientGoesOn
    /\ NextPage <= NumPages(total)
    /\ LET raw == PagePayload(NextPage, total) IN
        /\ log' = log \o <<Event("page", NextPage, 200), Event("push", raw, 0)>>
        /\ cache_queue' = Pushed(cache_queue, raw)
        /\ tquestions' = total
        /\ questions' = raw.results
        /\ wpage' = NextPage /\ wstate' = "yielded" /\ wnext' = raw.next
    /\ pc' = "itemloop"
    /\ UNCHANGED <<fixed, pep479, runs, mode, offset, page, drop_questions, current_offset,
                   nquestions, equestions, ledger, pos, emitted, dropped, error,
                   errcode, prev>>

\* lines 119-129: a 500 answer: a page of questions is lost, go to the next
KitsunePageServerError(s) ==
    /\ backend = "kitsune" /\ mode = "fetch" /\ pc = "pageloop"
    /\ ClientGoesOn
    /\ Absorbed(s)
    /\ equestions < MaxSkips * ITEMS_PER_PAGE
    /\ log' = Append(log, Event("page", NextPage, s))
    /\ equestions' = equestions + ITEMS_PER_PAGE
    /\ current_offset' = SkipPage(current_offset)
    /\ wpage' = KitsuneFirstPage(SkipPage(current_offset))
    /\ wstate' = "fresh" /\ wnext' = FALSE
    /\ UNCHANGED <<fixed, pep479, runs, mode, pc, offset, page, drop_questions, questions,
                   nquestions, tquestions, cache_queue, ledger, pos, emitted,
                   dropped, error, errcode, prev>>

\* lines 119-129 again, once MaxSkips pages are lost: the loop goes on in the
\* same way, with counters and a page number that grow without bound
KitsunePageServerErrorAgain(s) ==
    /\ backend = "kitsune" /\ mode = "fetch" /\ pc = "pageloop"
    /\ ClientGoesOn
    /\ Absorbed(s)
    /\ equestions >= MaxSkips * ITEMS_PER_PAGE
    /\ pulse' = ~pulse
    /\ UNCHANGED <<backend, total, hasCache, plan, wideOffset, translation,
                   classified, pep479,
                   runs, mode, pc, offset, page, walker, drop_questions,
                   current_offset, questions, counters, cache_queue, ledger, pos,
                   emitted, dropped, error, errcode, log, prev>>

\* lines 130-132: any other HTTP error is raised again
KitsunePageFatal(s) ==
    /\ backend = "kitsune" /\ mode = "fetch" /\ pc = "pageloop"
    /\ ClientGoesOn
    /\ ~Absorbed(s)
    /\ log' = Append(log, Event("page", NextPage, s))
    /\ Fail("HTTPError", s)
    /\ UNCHANGED <<fixed, pep479, runs, mode, offset, page, walker, drop_questions,
                   current_offset, questions, counters, cache_queue, ledger, pos,
                   emitted, dropped, prev>>

\* lines 320-323, 117-118, 165-166: no 'next' in the last page, the loop ends
KitsunePageStop ==
    /\ backend = "kitsune" /\ mode = "fetch" /\ pc = "pageloop"
    /\ ~ClientGoesOn /\ ~ClientBreaks
    /\ pc' = "done"
    /\ UNCHANGED <<fixed, pep479, runs, mode, offset, page, walker, drop_questions,
                   current_offset, questions, counters, cache_queue, ledger, pos,
                   emitted, dropped, error, errcode, log, prev>>

\* lines 146-149: a question before the offset is dropped
KitsuneDropQuestion ==
    /\ backend = "kitsune" /\ mode = "fetch" /\ pc = "itemloop"
    /\ questions # <<>>
    /\ drop_questions > 0
    /\ drop_questions' = drop_questions - 1
    /\ questions' = Tail(questions)
    /\ dropped' = dropped + 1
    /\ UNCHANGED <<fixed, pep479, runs, mode, pc, offset, page, walker, current_offset,
                   counters, cache_queue, ledger, pos, emitted, error, errcode,
                   log, prev>>

\* lines 153-154: every answers page of question q is requested, then pushed
Fetched(q, raws) ==
    [j \in 1..(2 * Len(raws)) |->
        IF j % 2 = 1 THEN Event("detail", q, 200)
        ELSE Event("push", raws[j \div 2], 0)]

\* lines 150-157, 326-347: stamp the question, fetch and push its answers
\* pages, yield it
KitsuneEmitQuestion ==
    /\ backend = "kitsune" /\ mode = "fetch" /\ pc = "itemloop"
    /\ questions # <<>>
    /\ drop_questions <= 0
    /\ LET q == Head(questions)
           raws == AnswersPages(q, AnswerPages(q)) IN
        /\ log' = log \o Fetched(q, raws) \o <<Event("emit", current_offset, 0)>>
        /\ cache_queue' = cache_queue \o raws
        /\ emitted' = Append(emitted, Item(q, current_offset, Flatten(raws)))
    /\ current_offset' = current_offset + 1
    /\ questions' = Tail(questions)
    /\ pc' = "yielded"
    /\ UNCHANGED <<fixed, pep479, runs, mode, offset, page, walker, drop_questions,
                   counters, ledger, pos, dropped, error, errcode, prev>>

\* lines 150-155, 341: an answers request fails after nok answers pages
KitsuneAnswersFail(nok, s) ==
    /\ backend = "kitsune" /\ mode = "fetch" /\ pc = "itemloop"
    /\ questions # <<>>
    /\ drop_questions <= 0
    /\ nok \in 0..(AnswerPages(Head(questions)) - 1)
    /\ LET q == Head(questions)
           raws == AnswersPages(q, nok) IN
        /\ log' = log \o Fetched(q, raws) \o <<Event("detail", q, s)>>
        /\ cache_queue' = cache_queue \o raws
    /\ current_offset' = current_offset + 1
    /\ questions' = Tail(questions)
    /\ Fail("HTTPError", s)
    /\ UNCHANGED <<fixed, pep479, runs, mode, offset, page, walker, drop_questions,
                   counters, ledger, pos, emitted, dropped, prev>>

\* lines 158-159: the caller pulls again: count the question, push its end mark
KitsuneResume ==
    /\ backend = "kitsune" /\ mode = "fetch" /\ pc = "yielded"
    /\ nquestions' = nquestions + 1
    /\ cache_queue' = Pushed(cache_queue, EndOfItem)
    /\ log' = Append(log, Event("push", EndOfItem, 0))
    /\ pc' = "itemloop"
    /\ UNCHANGED <<fixed, pep479, runs, mode, offset, page, walker, drop_questions,
                   current_offset, questions, tquestions, equestions, ledger, pos,
                   emitted, dropped, error, errcode, prev>>

\* lines 161-163: the page is done, the queue is flushed
KitsunePageEnd ==
    /\ backend = "kitsune" /\ mode = "fetch" /\ pc = "itemloop"
    /\ questions = <<>>
    /\ ledger' = FlushedLedger(ledger, cache_queue)
    /\ cache_queue' = FlushedQueue(cache_queue)
    /\ log' = Append(log, Event("flush", Len(cache_queue), 0))
    /\ pc' = "pageloop"
    /\ UNCHANGED <<fixed, pep479, runs, mode, offset, page, walker, drop_questions,
                   current_offset, questions, counters, pos, emitted, dropped,
                   error, errcode, prev>>

KitsuneFetch ==
    \/ \E k \in Offsets : KitsuneFetchBegin(k)
    \/ KitsunePageOk
    \/ \E s \in FailStatuses : KitsunePageServerError(s)
    \/ \E s \in FailStatuses : KitsunePageFatal(s)
    \/ KitsunePageStop
    \/ KitsuneDropQuestion
    \/ KitsuneEmitQuestion
    \/ \E nok \in 0..1, s \in FailStatuses : KitsuneAnswersFail(nok, s)
    \/ KitsuneResume
    \/ KitsunePageEnd

\* ---------------------------------------------------------- ReMo.fetch
\* the for loop over the page's items is over: the next page is asked for
AfterItem(qs) == IF qs = <<>> THEN "pageloop" ELSE "itemloop"

\* lines 96-121: translate the offset, purge, push the offset; the category
\* is one of the supported ones
ReMoFetchBegin(k) ==
    /\ backend = "remo"
    /\ StartCall("fetch")
    /\ k \in plan[Len(runs) + 1].args
    /\ CategoryOf(plan[Len(runs) + 1]) \in supported_categories
    /\ offset' = k
    /\ nquestions' = 0 /\ tquestions' = 0 /\ equestions' = 0
    /\ page' = CollectorPage(k)
    /\ drop_questions' = DropCount(k)
    /\ current_offset' = k
    /\ ledger' = PurgedLedger(ledger)
    /\ cache_queue' = Pushed(PurgedQueue(cache_queue), OffsetMarker(k))
    /\ log' = <<Event("purge", 0, 0), Event("push", OffsetMarker(k), 0)>>
    /\ wpage' = ReMoFirstPage(k) /\ wstate' = "fresh" /\ wnext' = FALSE
    /\ questions' = <<>>
    /\ pos' = 0
    /\ error' = "none"
    /\ pc' = "pageloop"

\* a fetch that looks at the category only after the purge and the push of
\* the offset
ReMoFetchUnsupportedAfterPurge(k) ==
    /\ backend = "remo"
    /\ StartCall("fetch")
    /\ k \in plan[Len(runs) + 1].args
    /\ CategoryOf(plan[Len(runs) + 1]) \notin supported_categories
    /\ offset' = k
    /\ ledger' = PurgedLedger(ledger)
    /\ cache_queue' = Pushed(PurgedQueue(cache_queue), OffsetMarker(k))
    /\ log' = <<Event("purge", 0, 0), Event("push", OffsetMarker(k), 0)>>
    /\ pc' = "failed"
    /\ error' = "ValueError"
    /\ UNCHANGED <<page, walker, drop_questions, current_offset, questions,
                   counters, pos>>

\* lines 96-99: the category is none of the supported ones: ValueError at
\* the first pull, before anything else is done
ReMoFetchUnsupported(k) ==
    /\ backend = "remo"
    /\ StartCall("fetch")
    /\ k \in plan[Len(runs) + 1].args
    /\ CategoryOf(plan[Len(runs) + 1]) \notin supported_categories
    /\ offset' = k
    /\ log' = <<>>
    /\ pc' = "failed"
    /\ error' = "ValueError"
    /\ UNCHANGED <<page, walker, drop_questions, current_offset, questions,
                   counters, cache_queue, ledger, pos>>

\* lines 308-309, 122-127: the page arrives, is pushed and parsed
ReMoPageOk ==
    /\ backend = "remo" /\ mode = "fetch" /\ pc = "pageloop"
    /\ ClientGoesOn
    /\ NextPage <= NumPages(total)
    /\ LET raw == PagePayload(NextPage, total) IN
        /\ log' = log \o <<Event("page", NextPage, 200), Event("push", raw, 0)>>
        /\ cache_queue' = Pushed(cache_queue, raw)
        /\ tquestions' = total
        /\ questions' = raw.results
        /\ wpage' = NextPage /\ wstate' = "yielded" /\ wnext' = raw.next
        /\ pc' = AfterItem(raw.results)
    /\ UNCHANGED <<fixed, pep479, runs, mode, offset, page, drop_questions, current_offset,
                   nquestions, equestions, ledger, pos, emitted, dropped, error,
                   errcode, prev>>

\* lines 281-282, 308: raise_for_status: every HTTP error ends the call
ReMoPageFail(s) ==
    /\ backend = "remo" /\ mode = "fetch" /\ pc = "pageloop"
    /\ ClientGoesOn
    /\ log' = Append(log, Event("page", NextPage, s))
    /\ Fail("HTTPError", s)
    /\ UNCHANGED <<fixed, pep479, runs, mode, offset, page, walker, drop_questions,
                   current_offset, questions, counters, cache_queue, ledger, pos,
                   emitted, dropped, prev>>

\* lines 311-315, 143: no 'next' in the last page: more = False
ReMoPageStop ==
    /\ backend = "remo" /\ mode = "fetch" /\ pc = "pageloop"
    /\ ~ClientGoesOn /\ ~ClientBreaks
    /\ pc' = "done"
    /\ UNCHANGED <<fixed, pep479, runs, mode, offset, page, walker, drop_questions,
                   current_offset, questions, counters, cache_queue, ledger, pos,
                   emitted, dropped, error, errcode, log, prev>>

\* lines 129-132: an item before the offset is dropped
ReMoDropItem ==
    /\ backend = "remo" /\ mode = "fetch" /\ pc = "itemloop"
    /\ questions # <<>>
    /\ drop_questions > 0
    /\ drop_questions' = drop_questions - 1
    /\ questions' = Tail(questions)
    /\ dropped' = dropped + 1
    /\ pc' = AfterItem(Tail(questions))
    /\ UNCHANGED <<fixed, pep479, runs, mode, offset, page, walker, current_offset,
                   counters, cache_queue, ledger, pos, emitted, error, errcode,
                   log, prev>>

\* lines 133-138: fetch the item's details, push them, stamp and yield
ReMoEmitItem ==
    /\ backend = "remo" /\ mode = "fetch" /\ pc = "itemloop"
    /\ questions # <<>>
    /\ drop_questions <= 0
    /\ LET i == Head(questions) IN
        /\ log' = log \o <<Event("detail", i, 200), Event("push", ItemPayload(i), 0),
                            Event("emit", current_offset, 0)>>
        /\ cache_queue' = Pushed(cache_queue, ItemPayload(i))
        /\ emitted' = Append(emitted, Item(i, current_offset, <<>>))
    /\ current_offset' = current_offset + 1
    /\ questions' = Tail(questions)
    /\ pc' = "yielded"
    /\ UNCHANGED <<fixed, pep479, runs, mode, offset, page, walker, drop_questions,
                   counters, ledger, pos, dropped, error, errcode, prev>>

\* lines 133, 281-282: the details request fails
ReMoItemFail(s) ==
    /\ backend = "remo" /\ mode = "fetch" /\ pc = "itemloop"
    /\ questions # <<>>
    /\ drop_questions <= 0
    /\ log' = Append(log, Event("detail", Head(questions), s))
    /\ questions' = Tail(questions)
    /\ Fail("HTTPError", s)
    /\ UNCHANGED <<fixed, pep479, runs, mode, offset, page, walker, drop_questions,
                   current_offset, counters, cache_queue, ledger, pos, emitted,
                   dropped, prev>>

\* lines 139-141: the caller pulls again: count the item, flush the queue
ReMoResume ==
    /\ backend = "remo" /\ mode = "fetch" /\ pc = "yielded"
    /\ nquestions' = nquestions + 1
    /\ ledger' = FlushedLedger(ledger, cache_queue)
    /\ cache_queue' = FlushedQueue(cache_queue)
    /\ log' = Append(log, Event("flush", Len(cache_queue), 0))
    /\ pc' = AfterItem(questions)
    /\ UNCHANGED <<fixed, pep479, runs, mode, offset, page, walker, drop_questions,
                   current_offset, questions, tquestions, equestions, pos, emitted,
                   dropped, error, errcode, prev>>

ReMoFetch ==
    \/ \E k \in Offsets : ReMoFetchBegin(k)
    \/ ReMoPageOk
    \/ \E s \in FailStatuses : ReMoPageFail(s)
    \/ ReMoPageStop
    \/ ReMoDropItem
    \/ ReMoEmitItem
    \/ \E s \in FailStatuses : ReMoItemFail(s)
    \/ ReMoResume

\* ------------------------------------------------ malformed payloads
\* what can be wrong with a payload: it is no JSON text, or it is a JSON
\* object without one of the fields the code reads
PageFlaws == {"invalid", "nocount", "noresults"}
AnswersFlaws == {"invalid", "noresults", "nonext"}

\* the payload raw with that flaw; only a payload without 'next' still gives
\* its results
Malformed(raw, flaw) ==
    [kind |-> flaw, value |-> raw.value,
     results |-> IF flaw = "nonext" THEN raw.results ELSE <<>>,
     next |-> FALSE]

IsMalformed(f) == f.kind \in {"invalid", "nocount", "noresults", "nonext"}

\* json.loads(raw) raises ValueError (JSONDecodeError) for a text that is no
\* JSON; data[field] raises KeyError for a field that is not there
Raised(flaw) == IF flaw = "invalid" THEN "ValueError" ELSE "KeyError"

\* Kitsune.fetch, lines 136-143: ValueError and KeyError become ParseError
KitsunePageError(flaw) ==
    IF Raised(flaw) \in {"ValueError", "KeyError"} THEN "ParseError" ELSE Raised(flaw)

\* lines 134-143: the page arrives and is pushed; it cannot be parsed, or has
\* no 'count' or no 'results'
KitsunePageMalformed(flaw) ==
    /\ backend = "kitsune" /\ mode = "fetch" /\ pc = "pageloop"
    /\ ClientGoesOn
    /\ NextPage <= NumPages(total)
    /\ LET raw == Malformed(PagePayload(NextPage, total), flaw) IN
        /\ log' = log \o <<Event("page", NextPage, 200), Event("push", raw, 0)>>
        /\ cache_queue' = Pushed(cache_queue, raw)
    /\ tquestions' = IF flaw = "noresults" THEN total ELSE tquestions
    /\ wpage' = NextPage /\ wstate' = "yielded" /\ wnext' = FALSE
    /\ Fail(KitsunePageError(flaw), 0)
    /\ UNCHANGED <<fixed, pep479, runs, mode, offset, page, drop_questions,
                   current_offset, questions, nquestions, equestions, ledger, pos,
                   emitted, dropped, prev>>

\* lines 134-139: a page with 'count' and 'results' and without 'next' is
\* pushed and parsed as any other page
KitsunePageNoNext ==
    /\ backend = "kitsune" /\ mode = "fetch" /\ pc = "pageloop"
    /\ ClientGoesOn
    /\ NextPage <= NumPages(total)
    /\ LET raw == Malformed(PagePayload(NextPage, total), "nonext") IN
        /\ log' = log \o <<Event("page", NextPage, 200), Event("push", raw, 0)>>
        /\ cache_queue' = Pushed(cache_queue, raw)
        /\ questions' = raw.results
    /\ tquestions' = total
    /\ wpage' = NextPage /\ wstate' = "nonext" /\ wnext' = FALSE
    /\ pc' = "itemloop"
    /\ UNCHANGED <<fixed, pep479, runs, mode, offset, page, drop_questions, current_offset,
                   nquestions, equestions, ledger, pos, emitted, dropped, error,
                   errcode, prev>>

\* lines 116, 320-321: the client is pulled after such a page: the KeyError
\* of questions_json['next'] is neither StopIteration nor HTTPError
KitsunePullKeyError ==
    /\ backend = "kitsune" /\ mode = "fetch" /\ pc = "pageloop"
    /\ ClientBreaks
    /\ Fail(Raised("nonext"), 0)
    /\ UNCHANGED <<fixed, pep479, runs, mode, offset, page, walker, drop_questions,
                   current_offset, questions, counters, cache_queue, ledger, pos,
                   emitted, dropped, log, prev>>

\* lines 153-155, 344-345: after nok answers pages, one that cannot be
\* parsed, or has no 'results', or no 'next': no handler around them
KitsuneAnswersMalformed(nok, flaw) ==
    /\ backend = "kitsune" /\ mode = "fetch" /\ pc = "itemloop"
    /\ questions # <<>>
    /\ drop_questions <= 0
    /\ nok \in 0..(AnswerPages(Head(questions)) - 1)
    /\ LET q == Head(questions)
           raws == Append(AnswersPages(q, nok),
                          Malformed(AnswersPayload(q, nok + 1), flaw)) IN
        /\ log' = log \o Fetched(q, raws)
        /\ cache_queue' = cache_queue \o raws
    /\ current_offset' = current_offset + 1
    /\ questions' = Tail(questions)
    /\ Fail(Raised(flaw), 0)
    /\ UNCHANGED <<fixed, pep479, runs, mode, offset, page, walker, drop_questions,
                   counters, ledger, pos, emitted, dropped, prev>>

\* ReMo.fetch, lines 122-127: the page is pushed; json.loads or the reading
\* of 'count' or 'results' fails, with no handler around them
ReMoPageMalformed(flaw) ==
    /\ backend = "remo" /\ mode = "fetch" /\ pc = "pageloop"
    /\ ClientGoesOn
    /\ NextPage <= NumPages(total)
    /\ LET raw == Malformed(PagePayload(NextPage, total), flaw) IN
        /\ log' = log \o <<Event("page", NextPage, 200), Event("push", raw, 0)>>
        /\ cache_queue' = Pushed(cache_queue, raw)
    /\ tquestions' = IF flaw = "noresults" THEN total ELSE tquestions
    /\ wpage' = NextPage /\ wstate' = "yielded" /\ wnext' = FALSE
    /\ Fail(Raised(flaw), 0)
    /\ UNCHANGED <<fixed, pep479, runs, mode, offset, page, drop_questions,
                   current_offset, questions, nquestions, equestions, ledger, pos,
                   emitted, dropped, prev>>

\* lines 122-127: a page without 'next' is pushed and parsed as any other
ReMoPageNoNext ==
    /\ backend = "remo" /\ mode = "fetch" /\ pc = "pageloop"
    /\ ClientGoesOn
    /\ NextPage <= NumPages(total)
    /\ LET raw == Malformed(PagePayload(NextPage, total), "nonext") IN
        /\ log' = log \o <<Event("page", NextPage, 200), Event("push", raw, 0)>>
        /\ cache_queue' = Pushed(cache_queue, raw)
        /\ questions' = raw.results
        /\ pc' = AfterItem(raw.results)
    /\ tquestions' = total
    /\ wpage' = NextPage /\ wstate' = "nonext" /\ wnext' = FALSE
    /\ UNCHANGED <<fixed, pep479, runs, mode, offset, page, drop_questions, current_offset,
                   nquestions, equestions, ledger, pos, emitted, dropped, error,
                   errcode, prev>>

\* lines 121, 311-312: the client is pulled after such a page: KeyError
ReMoPullKeyError ==
    /\ backend = "remo" /\ mode = "fetch" /\ pc = "pageloop"
    /\ ClientBreaks
    /\ Fail(Raised("nonext"), 0)
    /\ UNCHANGED <<fixed, pep479, runs, mode, offset, page, walker, drop_questions,
                   current_offset, questions, counters, cache_queue, ledger, pos,
                   emitted, dropped, log, prev>>

\* lines 133-135: the details arrive and are pushed; they are no JSON text
ReMoItemMalformed ==
    /\ backend = "remo" /\ mode = "fetch" /\ pc = "itemloop"
    /\ questions # <<>>
    /\ drop_questions <= 0
    /\ LET i == Head(questions)
           raw == Malformed(ItemPayload(i), "invalid") IN
        /\ log' = log \o <<Event("detail", i, 200), Event("push", raw, 0)>>
        /\ cache_queue' = Pushed(cache_queue, raw)
    /\ questions' = Tail(questions)
    /\ Fail(Raised("invalid"), 0)
    /\ UNCHANGED <<fixed, pep479, runs, mode, offset, page, walker, drop_questions,
                   current_offset, counters, ledger, pos, emitted, dropped, prev>>

\* ------------------------------------------------- ReMo.metadata_category
\* no category returned
NoCategory == "none"
\* no item classified yet
NotClassified ==
    [done |-> FALSE, item |-> {}, selector |-> "events",
     category |-> NoCategory, error |-> "none"]

\* a classifier that probes 'activity' first
metadata_category_activity_first(item) ==
    IF "activity" \in item THEN [category |-> "activity", error |-> "none"]
    ELSE IF "estimated_attendance" \in item THEN [category |-> "event", error |-> "none"]
    ELSE IF "first_name" \in item THEN [category |-> "user", error |-> "none"]
    ELSE [category |-> NoCategory, error |-> "TypeError"]

\* lines 237-246; an item is the set of its fields. The message of the
\* TypeError is built with str + dict, which raises TypeError itself
metadata_category(item) ==
    IF "estimated_attendance" \in item THEN [category |-> "event", error |-> "none"]
    ELSE IF "activity" \in item THEN [category |-> "activity", error |-> "none"]
    ELSE IF "first_name" \in item THEN [category |-> "user", error |-> "none"]
    ELSE [category |-> NoCategory, error |-> "TypeError"]

\* the fields an item may have: those metadata_category, metadata_updated_on
\* and metadata_id look for
ItemFields ==
    {"estimated_attendance", "activity", "first_name", "end", "report_date",
     "remo_url"}

\* an item of the category the fetch was started with comes out of it
PickItem ==
    /\ backend = "remo" /\ pc = "idle"
    /\ classified = NotClassified
    /\ \E item \in SUBSET ItemFields, c \in supported_categories :
           /\ item # {}
           /\ classified' = [NotClassified EXCEPT !.item = item, !.selector = c]
    /\ UNCHANGED <<backend, total, hasCache, plan, wideOffset, translation, pulse,
                   pep479, runs, mode, pc, offset, page, walker, drop_questions,
                   current_offset, questions, counters, cache_queue, ledger, pos,
                   emitted, dropped, error, errcode, log, prev>>

\* the metadata decorator asks for its category
Classify ==
    /\ backend = "remo" /\ pc = "idle"
    /\ classified.item # {} /\ ~classified.done
    /\ LET res == metadata_category(classified.item) IN
           classified' = [classified EXCEPT !.done = TRUE,
                                            !.category = res.category,
                                            !.error = res.error]
    /\ UNCHANGED <<backend, total, hasCache, plan, wideOffset, translation, pulse,
                   pep479, runs, mode, pc, offset, page, walker, drop_questions,
                   current_offset, questions, counters, cache_queue, ledger, pos,
                   emitted, dropped, error, errcode, log, prev>>

\* ------------------------------------------------- fetch_from_cache
\* next(cache_items) with nothing left raises StopIteration inside the
\* generator: the interpreter ends the generator or raises RuntimeError
StopPc(b) == IF b = "yes" THEN "failed" ELSE "done"
StopError(b) == IF b = "yes" THEN "RuntimeError" ELSE "none"
\* the interpreter is the same in every run
Interpreters == IF pep479 = "unknown" THEN {"yes", "no"} ELSE {pep479}

Outcome(res, p, off, drop, qs) ==
    [res |-> res, pos |-> p, offset |-> off, drop |-> drop, questions |-> qs]

\* a replay that drops nothing
GetDropQuestionsNone(o) == 0

\* Kitsune.fetch_from_cache.get_drop_questions
GetDropQuestions(o) == o - IntDiv(o) * ITEMS_PER_PAGE

\* Kitsune.fetch_from_cache, lines 209-220: one turn of the loop over the
\* cache, up to the questions of a page
KitsuneCacheStep(l, p, off, drop) ==
    LET raw == l[p + 1]
        isint == IsInt(raw)
        off1 == IF isint THEN raw.value ELSE off
        p1 == IF isint THEN p + 2 ELSE p + 1
    IN  IF isint /\ p + 2 > Len(l)
        THEN Outcome("stop", p + 1, off1, drop, <<>>)
        ELSE
        LET q1 == IF isint THEN l[p + 2] ELSE raw
            drop1 == IF isint THEN GetDropQuestions(off1) ELSE drop
        IN  IF IsInt(q1) THEN Outcome("TypeError", p1, off1, drop1, <<>>)
            ELSE IF IsEmptyDict(q1) /\ p1 + 1 > Len(l)
                 THEN Outcome("stop", p1, off1, drop1, <<>>)
            ELSE
            LET q2 == IF IsEmptyDict(q1) THEN l[p1 + 1] ELSE q1
                p2 == IF IsEmptyDict(q1) THEN p1 + 1 ELSE p1
            IN  IF IsInt(q2) THEN Outcome("TypeError", p2, off1, drop1, <<>>)
                ELSE IF ~HasResults(q2) THEN Outcome("KeyError", p2, off1, drop1, <<>>)
                ELSE Outcome("ok", p2, off1, drop1, q2.results)

\* Kitsune.fetch_from_cache.get_answers: the answers up to the empty dict
RECURSIVE GetAnswers(_, _, _)
GetAnswers(l, p, acc) ==
    IF p >= Len(l) THEN [pos |-> p, answers |-> acc, error |-> "none"]
    ELSE LET f == l[p + 1] IN
         IF IsInt(f) THEN [pos |-> p + 1, answers |-> acc, error |-> "TypeError"]
         ELSE IF IsEmptyDict(f) THEN [pos |-> p + 1, answers |-> acc, error |-> "none"]
         ELSE IF ~HasResults(f) THEN [pos |-> p + 1, answers |-> acc, error |-> "KeyError"]
         ELSE GetAnswers(l, p + 1, acc \o f.results)

AfterQuestion(qs) == IF qs = <<>> THEN "cacheloop" ELSE "cachequestions"

\* a replay that starts as a live run does, with _purge_cache_queue
CacheBeginPurging(start) ==
    /\ StartCall("cache")
    /\ log' = <<Event("purge", 0, 0)>>
    /\ nquestions' = 0
    /\ questions' = <<>>
    /\ current_offset' = Unbound
    /\ drop_questions' = Unbound
    /\ pos' = start
    /\ pc' = IF hasCache THEN "cacheloop" ELSE "failed"
    /\ error' = IF hasCache THEN "none" ELSE "CacheError"
    /\ ledger' = PurgedLedger(ledger)
    /\ cache_queue' = PurgedQueue(cache_queue)
    /\ UNCHANGED <<offset, page, walker, tquestions, equestions>>

\* a replay that does not look whether there is a cache
CacheBeginUnchecked(start) ==
    /\ StartCall("cache")
    /\ log' = <<>>
    /\ nquestions' = 0
    /\ questions' = <<>>
    /\ current_offset' = Unbound
    /\ drop_questions' = Unbound
    /\ pos' = start
    /\ pc' = "cacheloop"
    /\ error' = "none"
    /\ UNCHANGED <<offset, page, walker, tquestions, equestions, cache_queue, ledger>>

\* the start of a replay: no cache is a CacheError, else cache.retrieve()
\* gives the fragments from position `start` on
CacheBegin(start) ==
    /\ StartCall("cache")
    /\ log' = <<>>
    /\ nquestions' = 0
    /\ questions' = <<>>
    /\ current_offset' = Unbound
    /\ drop_questions' = Unbound
    /\ pos' = start
    /\ pc' = IF hasCache THEN "cacheloop" ELSE "failed"
    /\ error' = IF hasCache THEN "none" ELSE "CacheError"
    /\ UNCHANGED <<offset, page, walker, tquestions, equestions, cache_queue, ledger>>

\* a replay that goes on reading where the previous one stopped
KitsuneCacheBeginStale ==
    /\ backend = "kitsune"
    /\ CacheBegin(pos)

\* lines 200-207
KitsuneCacheBegin ==
    /\ backend = "kitsune"
    /\ CacheBegin(0)

\* lines 209-220: the next page of questions is read from the cache
KitsuneCachePage ==
    /\ backend = "kitsune" /\ mode = "cache" /\ pc = "cacheloop"
    /\ pos < Len(ledger)
    /\ LET o == KitsuneCacheStep(ledger, pos, current_offset, drop_questions) IN
        /\ o.res = "ok"
        /\ pos' = o.pos
        /\ current_offset' = o.offset
        /\ drop_questions' = o.drop
        /\ questions' = o.questions
        /\ pc' = AfterQuestion(o.questions)
    /\ UNCHANGED <<fixed, pep479, runs, mode, offset, page, walker, counters, cache_queue,
                   ledger, emitted, dropped, error, errcode, log, prev>>

\* lines 213, 217-220: the cache ends where a page is expected, or holds
\* something that is no page there
KitsuneCacheBroken ==
    /\ backend = "kitsune" /\ mode = "cache" /\ pc = "cacheloop"
    /\ pos < Len(ledger)
    /\ LET o == KitsuneCacheStep(ledger, pos, current_offset, drop_questions) IN
        /\ o.res # "ok"
        /\ pos' = o.pos
        /\ current_offset' = o.offset
        /\ drop_questions' = o.drop
        /\ \E b \in Interpreters :
            /\ pep479' = IF o.res = "stop" THEN b ELSE pep479
            /\ pc' = IF o.res = "stop" THEN StopPc(b) ELSE "failed"
            /\ error' = IF o.res = "stop" THEN StopError(b) ELSE o.res
    /\ UNCHANGED <<fixed, runs, mode, offset, page, walker, questions, counters,
                   cache_queue, ledger, emitted, dropped, errcode, log, prev>>

\* lines 209, 232: the cache is read to its end
KitsuneCacheEnd ==
    /\ backend = "kitsune" /\ mode = "cache" /\ pc = "cacheloop"
    /\ pos >= Len(ledger)
    /\ pc' = "done"
    /\ UNCHANGED <<fixed, pep479, runs, mode, offset, page, walker, drop_questions,
                   current_offset, questions, counters, cache_queue, ledger, pos,
                   emitted, dropped, error, errcode, log, prev>>

\* line 222 with drop_questions never assigned: UnboundLocalError
KitsuneCacheUnbound ==
    /\ backend = "kitsune" /\ mode = "cache" /\ pc = "cachequestions"
    /\ questions # <<>>
    /\ drop_questions = Unbound
    /\ Fail("UnboundLocalError", 0)
    /\ UNCHANGED <<fixed, pep479, runs, mode, offset, page, walker, drop_questions,
                   current_offset, questions, counters, cache_queue, ledger, pos,
                   emitted, dropped, log, prev>>

\* lines 222-225
KitsuneCacheDrop ==
    /\ backend = "kitsune" /\ mode = "cache" /\ pc = "cachequestions"
    /\ questions # <<>>
    /\ drop_questions # Unbound
    /\ drop_questions > 0
    /\ drop_questions' = drop_questions - 1
    /\ questions' = Tail(questions)
    /\ dropped' = dropped + 1
    /\ pc' = AfterQuestion(Tail(questions))
    /\ UNCHANGED <<fixed, pep479, runs, mode, offset, page, walker, current_offset,
                   counters, cache_queue, ledger, pos, emitted, error, errcode,
                   log, prev>>

\* lines 226-229: stamp the question, read its answers, yield it
KitsuneCacheEmit ==
    /\ backend = "kitsune" /\ mode = "cache" /\ pc = "cachequestions"
    /\ questions # <<>>
    /\ drop_questions # Unbound
    /\ drop_questions <= 0
    /\ LET a == GetAnswers(ledger, pos, <<>>) IN
        /\ a.error = "none"
        /\ pos' = a.pos
        /\ emitted' = Append(emitted, Item(Head(questions), current_offset, a.answers))
        /\ log' = Append(log, Event("emit", current_offset, 0))
    /\ current_offset' = current_offset + 1
    /\ questions' = Tail(questions)
    /\ pc' = "cacheyielded"
    /\ UNCHANGED <<fixed, pep479, runs, mode, offset, page, walker, drop_questions,
                   counters, cache_queue, ledger, dropped, error, errcode, prev>>

\* lines 189-190: something that is no JSON text among the answers
KitsuneCacheAnswersBroken ==
    /\ backend = "kitsune" /\ mode = "cache" /\ pc = "cachequestions"
    /\ questions # <<>>
    /\ drop_questions # Unbound
    /\ drop_questions <= 0
    /\ LET a == GetAnswers(ledger, pos, <<>>) IN
        /\ a.error # "none"
        /\ pos' = a.pos
        /\ Fail(a.error, 0)
    /\ current_offset' = current_offset + 1
    /\ questions' = Tail(questions)
    /\ UNCHANGED <<fixed, pep479, runs, mode, offset, page, walker, drop_questions,
                   counters, cache_queue, ledger, emitted, dropped, log, prev>>

\* line 230: the caller pulls again
KitsuneCacheResume ==
    /\ backend = "kitsune" /\ mode = "cache" /\ pc = "cacheyielded"
    /\ nquestions' = nquestions + 1
    /\ pc' = AfterQuestion(questions)
    /\ UNCHANGED <<fixed, pep479, runs, mode, offset, page, walker, drop_questions,
                   current_offset, questions, tquestions, equestions, cache_queue,
                   ledger, pos, emitted, dropped, error, errcode, log, prev>>

KitsuneFetchFromCache ==
    \/ KitsuneCacheBegin
    \/ KitsuneCachePage
    \/ KitsuneCacheBroken
    \/ KitsuneCacheEnd
    \/ KitsuneCacheUnbound
    \/ KitsuneCacheDrop
    \/ KitsuneCacheEmit
    \/ KitsuneCacheAnswersBroken
    \/ KitsuneCacheResume

\* ------------------------------------------- ReMo.fetch_from_cache
\* lines 164-177: one turn of the loop over the cache
ReMoCacheStep(l, p, off) ==
    LET raw == l[p + 1]
        isint == IsInt(raw)
        off1 == IF isint THEN raw.value ELSE off
        p1 == IF isint THEN p + 2 ELSE p + 1
    IN  IF isint /\ p + 2 > Len(l)
        THEN Outcome("stop", p + 1, off1, Unbound, <<>>)
        ELSE
        LET item == IF isint THEN l[p + 2] ELSE raw
        IN  IF IsInt(item) THEN Outcome("TypeError", p1, off1, Unbound, <<>>)
            ELSE IF HasCount(item) THEN Outcome("skip", p1, off1, Unbound, <<>>)
            ELSE IF off1 = Unbound
                 THEN Outcome("UnboundLocalError", p1, off1, Unbound, <<>>)
            ELSE Outcome("emit", p1, off1, Unbound, <<item.value>>)

\* lines 155-162
ReMoCacheBegin ==
    /\ backend = "remo"
    /\ CacheBegin(0)

\* lines 171-173: a list of items is passed over
ReMoCacheSkip ==
    /\ backend = "remo" /\ mode = "cache" /\ pc = "cacheloop"
    /\ pos < Len(ledger)
    /\ LET o == ReMoCacheStep(ledger, pos, current_offset) IN
        /\ o.res = "skip"
        /\ pos' = o.pos
        /\ current_offset' = o.offset
    /\ UNCHANGED <<fixed, pep479, runs, mode, pc, offset, page, walker, drop_questions,
                   questions, counters, cache_queue, ledger, emitted, dropped,
                   error, errcode, log, prev>>

\* lines 174-177: an item is stamped and yielded
ReMoCacheEmit ==
    /\ backend = "remo" /\ mode = "cache" /\ pc = "cacheloop"
    /\ pos < Len(ledger)
    /\ LET o == ReMoCacheStep(ledger, pos, current_offset) IN
        /\ o.res = "emit"
        /\ pos' = o.pos
        /\ current_offset' = o.offset + 1
        /\ emitted' = Append(emitted, Item(Head(o.questions), o.offset, <<>>))
        /\ log' = Append(log, Event("emit", o.offset, 0))
    /\ pc' = "cacheyielded"
    /\ UNCHANGED <<fixed, pep479, runs, mode, offset, page, walker, drop_questions,
                   questions, counters, cache_queue, ledger, dropped, error,
                   errcode, prev>>

\* lines 168, 169, 175: the cache ends after an offset, holds an offset where
\* a text is expected, or an item before any offset
ReMoCacheBroken ==
    /\ backend = "remo" /\ mode = "cache" /\ pc = "cacheloop"
    /\ pos < Len(ledger)
    /\ LET o == ReMoCacheStep(ledger, pos, current_offset) IN
        /\ o.res \notin {"skip", "emit"}
        /\ pos' = o.pos
        /\ current_offset' = o.offset
        /\ \E b \in Interpreters :
            /\ pep479' = IF o.res = "stop" THEN b ELSE pep479
            /\ pc' = IF o.res = "stop" THEN StopPc(b) ELSE "failed"
            /\ error' = IF o.res = "stop" THEN StopError(b) ELSE o.res
    /\ UNCHANGED <<fixed, runs, mode, offset, page, walker, drop_questions,
                   questions, counters, cache_queue, ledger, emitted, dropped,
                   errcode, log, prev>>

\* lines 164, 180: the cache is read to its end
ReMoCacheEnd ==
    /\ backend = "remo" /\ mode = "cache" /\ pc = "cacheloop"
    /\ pos >= Len(ledger)
    /\ pc' = "done"
    /\ UNCHANGED <<fixed, pep479, runs, mode, offset, page, walker, drop_questions,
                   current_offset, questions, counters, cache_queue, ledger, pos,
                   emitted, dropped, error, errcode, log, prev>>

\* line 178: the caller pulls again
ReMoCacheResume ==
    /\ backend = "remo" /\ mode = "cache" /\ pc = "cacheyielded"
    /\ nquestions' = nquestions + 1
    /\ pc' = "cacheloop"
    /\ UNCHANGED <<fixed, pep479, runs, mode, offset, page, walker, drop_questions,
                   current_offset, questions, tquestions, equestions, cache_queue,
                   ledger, pos, emitted, dropped, error, errcode, log, prev>>

ReMoFetchFromCache ==
    \/ ReMoCacheBegin
    \/ ReMoCacheSkip
    \/ ReMoCacheEmit
    \/ ReMoCacheBroken
    \/ ReMoCacheEnd
    \/ ReMoCacheResume

\* ------------------------------------------------------- specifications
\* the fragments a hand-made ledger is made of
Alphabet(b, n) ==
    {OffsetMarker(k) : k \in 0..n} \cup {PagePayload(FIRST_PAGE, n)}
    \cup (IF b = "kitsune"
          THEN {AnswersPayload(q, a) : q \in 0..(n - 1), a \in 1..2} \cup {EndOfItem}
          ELSE {ItemPayload(i) : i \in 0..(n - 1)})

HandLedgers(b, n) == UNION {[1..m -> Alphabet(b, n)] : m \in 0..MaxLedgerLen}

\* a live run and two replays of what it left in the cache
LivePlan == <<Fetch(Offsets), Replay, Replay>>
\* two replays of a cache filled by hand
CachePlan == <<Replay, Replay>>
\* a live run from the start and a live run from an offset
ResumePlan == <<Fetch({DEFAULT_OFFSET}), Fetch(Offsets)>>

\* no offset translated yet
NotTranslated == [done |-> FALSE, page |-> Wide(0), drop |-> 0, first |-> Wide(0)]

InitCall ==
    /\ pulse = FALSE
    /\ classified = NotClassified
    /\ wideOffset = Wide(0)
    /\ translation = NotTranslated
    /\ runs = <<>>
    /\ mode = "none"
    /\ pc = "idle"
    /\ offset = 0 /\ page = 0
    /\ wpage = FIRST_PAGE /\ wstate = "fresh" /\ wnext = FALSE
    /\ drop_questions = 0 /\ current_offset = 0
    /\ questions = <<>>
    /\ nquestions = 0 /\ tquestions = 0 /\ equestions = 0
    /\ cache_queue = <<>>
    /\ pos = 0
    /\ emitted = <<>>
    /\ dropped = 0
    /\ error = "none" /\ errcode = 0
    /\ log = <<>>
    /\ prev = NoCall

Init ==
    /\ backend \in Backends
    /\ pep479 = "unknown"
    /\ \/ /\ plan = LivePlan
          /\ total \in Totals
          /\ hasCache \in BOOLEAN
          /\ ledger = <<>>
       \/ /\ plan = CachePlan
          /\ total \in 0..MaxLedgerItems
          /\ hasCache \in BOOLEAN
          /\ ledger \in IF hasCache THEN HandLedgers(backend, total) ELSE {<<>>}
    /\ InitCall

Next ==
    \/ KitsuneFetch
    \/ KitsuneFetchFromCache
    \/ ReMoFetch
    \/ ReMoFetchFromCache

Spec == Init /\ [][Next]_vars

\* ------------------------------------------------ the offset translation
\* the offsets translated: every power of two up to 2^(MANT_DIG + 3), and
\* the two pages after it
HighLimbs == {0} \cup {2^e : e \in 0..(MANT_DIG + 3 - LimbBits)}
LowLimbs == 0..(2 * ITEMS_PER_PAGE - 1)

InitTranslate ==
    /\ backend \in Backends
    /\ pep479 = "unknown"
    /\ plan = <<>>
    /\ total = 0
    /\ hasCache = FALSE
    /\ ledger = <<>>
    /\ InitCall

\* the caller picks the offset argument
PickOffset ==
    /\ pc = "idle" /\ ~translation.done /\ wideOffset = Wide(0)
    /\ \E h \in HighLimbs, l \in LowLimbs :
           /\ <<h, l>> # Wide(0)
           /\ wideOffset' = <<h, l>>
    /\ UNCHANGED <<backend, total, hasCache, plan, translation, pulse, classified,
                   pep479, runs, mode,
                   pc, offset, page, walker, drop_questions, current_offset,
                   questions, counters, cache_queue, ledger, pos, emitted,
                   dropped, error, errcode, log, prev>>

Translated(p, d, f) == [done |-> TRUE, page |-> p, drop |-> d, first |-> f]

\* Kitsune.fetch lines 104-108 and KitsuneClient.get_questions lines 300-303
KitsuneTranslate ==
    /\ backend = "kitsune" /\ pc = "idle" /\ ~translation.done
    /\ translation' = Translated(CollectorPageWide(wideOffset),
                                 DropCountWide(wideOffset),
                                 KitsuneFirstPageWide(wideOffset))
    /\ UNCHANGED <<backend, total, hasCache, plan, wideOffset, pulse, classified,
                   pep479, runs, mode,
                   pc, offset, page, walker, drop_questions, current_offset,
                   questions, counters, cache_queue, ledger, pos, emitted,
                   dropped, error, errcode, log, prev>>

\* ReMo.fetch lines 109-112 and ReMoClient.get_items lines 291-292
ReMoTranslate ==
    /\ backend = "remo" /\ pc = "idle" /\ ~translation.done
    /\ translation' = Translated(CollectorPageWide(wideOffset),
                                 DropCountWide(wideOffset),
                                 ReMoFirstPageWide(wideOffset))
    /\ UNCHANGED <<backend, total, hasCache, plan, wideOffset, pulse, classified,
                   pep479, runs, mode,
                   pc, offset, page, walker, drop_questions, current_offset,
                   questions, counters, cache_queue, ledger, pos, emitted,
                   dropped, error, errcode, log, prev>>

NextTranslate ==
    \/ PickOffset
    \/ KitsuneTranslate
    \/ ReMoTranslate

SpecTranslate == InitTranslate /\ [][NextTranslate]_vars

\* a live run, ended or given up by the caller, and the replay of its cache
InitInterrupt ==
    /\ backend \in Backends
    /\ pep479 = "unknown"
    /\ plan = InterruptPlan
    /\ total \in Totals
    /\ hasCache = TRUE
    /\ ledger = <<>>
    /\ InitCall

SpecInterrupt == InitInterrupt /\ [][Next]_vars

\* one live run whose caller keeps pulling until it ends
PullPlan == <<Fetch(Offsets)>>

InitLive ==
    /\ backend \in Backends
    /\ pep479 = "unknown"
    /\ plan = PullPlan
    /\ total \in Totals
    /\ hasCache \in BOOLEAN
    /\ ledger = <<>>
    /\ InitCall

NextLive ==
    \/ KitsuneFetch
    \/ \E s \in FailStatuses : KitsunePageServerErrorAgain(s)
    \/ ReMoFetch

\* the run takes its next step as long as it has one: the caller pulls, the
\* source answers
SpecLive == InitLive /\ [][NextLive]_vars /\ WF_vars(NextLive)

\* ---------------------------------------------------------------- claims
Ended == pc \in {"done", "failed"}

PageRequests == SelectSeq(log, LAMBDA e : e.op = "page")
RequestsAndEmissions == SelectSeq(log, LAMBDA e : e.op \in {"page", "emit"})

\* a live run that has translated its offset and made no request yet
JustBegun == mode = "fetch" /\ pc = "pageloop" /\ PageRequests = <<>>

\* C3: for every offset >= 0 the first page the client requests is
\* p = floor(offset / 20) + 1 and the collector's drop count is
\* d = offset - (p - 1) * 20, with 0 <= d < 20 and offset = (p - 1) * 20 + d;
\* the collector's page and the client's page are the same page.
C3_OffsetPageInvariant ==
    translation.done =>
        LET p == translation.first
            d == translation.drop
            before == WidePlus(p, <<-1, Limb - 1>>)      \* p - 1
        IN  /\ p = WidePlus(Quotient(wideOffset), Wide(1))
            /\ d = WideMinus(wideOffset, WideTimesPage(before))
            /\ 0 <= d /\ d < 20
            /\ wideOffset = WidePlus(WideTimesPage(before), Wide(d))
            /\ before = translation.page

\* the same for the offsets of the live runs explored, all of them far below
\* the size at which the float quotient is rounded to the next integer
SmallOffsetPageInvariant ==
    mode = "fetch" =>
        /\ JustBegun =>
            /\ wpage = (offset \div 20) + 1
            /\ drop_questions = offset - (wpage - 1) * 20
            /\ 0 <= drop_questions /\ drop_questions < 20
            /\ offset = (wpage - 1) * 20 + drop_questions
            /\ wpage = page + 1
        /\ PageRequests # <<>> =>
            /\ PageRequests[1].arg = (offset \div 20) + 1
            /\ PageRequests[1].arg = page + 1

\* C4: with 45 items, a live Kitsune fetch from offset 25 that meets no
\* error requests page 2, drops its first 5 results, emits the other 15
\* stamped 25..39, requests page 3, emits its 5 results stamped 40..44 and
\* ends without another request.
C4_Scenario ==
    (/\ backend = "kitsune" /\ mode = "fetch" /\ total = 45 /\ offset = 25
     /\ pc = "done" /\ equestions = 0)
    =>  /\ RequestsAndEmissions =
               <<Event("page", 2, 200)>>
            \o [i \in 1..15 |-> Event("emit", 24 + i, 0)]
            \o <<Event("page", 3, 200)>>
            \o [i \in 1..5 |-> Event("emit", 39 + i, 0)]
        /\ dropped = 5
        /\ Len(emitted) = 20
        /\ \A i \in 1..20 : emitted[i].offset = 24 + i /\ emitted[i].id = 24 + i

C4_Witness ==
    /\ backend = "kitsune" /\ mode = "fetch" /\ total = 45 /\ offset = 25
    /\ pc = "done" /\ equestions = 0
    /\ Len(emitted) = 20 /\ dropped = 5

Last(q) == q[Len(q)]

\* C1: the replay of the cache a completed live run has filled emits what
\* the live run emitted: the same items, in the same order, with the same
\* offsets and the same answers.
C1_LiveReplayEquivalence ==
    (/\ mode = "cache" /\ Ended /\ hasCache
     /\ prev.mode = "fetch" /\ prev.pc = "done")
    => (pc = "done" /\ emitted = prev.emitted)

\* the same, for the live runs that lost no page to a 500 answer
LiveReplayEquivalenceWithoutSkip ==
    (/\ mode = "cache" /\ Ended /\ hasCache
     /\ prev.mode = "fetch" /\ prev.pc = "done" /\ prev.lost = 0)
    => (pc = "done" /\ emitted = prev.emitted)

\* this step ends with a page request answered by status s
PageAnswered(s) ==
    /\ Len(log') = Len(log) + 1
    /\ Last(log').op = "page"
    /\ Last(log').status = s

\* what the code does after a page request it goes on after
SkipAccounted ==
    /\ pc' = "pageloop"
    /\ equestions' = equestions + 20
    /\ current_offset' = current_offset + 20
    /\ NextPage' = NextPage + 1
    /\ emitted' = emitted

\* every item is stamped with the logical offset of the moment
StampedWithCurrentOffset ==
    Len(emitted') = Len(emitted) + 1 => Last(emitted').offset = current_offset

FatalRequest(e) ==
    \/ e.op = "detail" /\ e.status # 200
    \/ e.op = "page" /\ e.status # 200 /\ e.status < 500

Skips == {i \in DOMAIN log : log[i].op = "page" /\ log[i].status = 500}

\* C6: in a live run, a page request that fails with a status that is no
\* server error, and a detail request that fails with any status, end the run
\* in Failed with that HTTP error: it is the last thing the run does (no
\* request, emission or flush follows it) and it adds nothing to the lost
\* items.
C6_OtherFailuresAreFatal ==
    mode = "fetch" =>
        \A i \in DOMAIN log :
            FatalRequest(log[i]) =>
                /\ i = Len(log)
                /\ pc = "failed"
                /\ error = "HTTPError" /\ errcode = log[i].status
                /\ equestions = 20 * Cardinality(Skips \ {i})

\* a Kitsune run that had lost a page and emitted items failed on a page
\* request answered 404
C6_Witness ==
    /\ backend = "kitsune" /\ mode = "fetch" /\ pc = "failed"
    /\ Last(log).op = "page" /\ errcode = 404
    /\ emitted # <<>> /\ equestions = 20

\* C7: the replay of a cache whose first fragment is no offset fails with
\* CacheError and emits nothing.
C7_NoOffsetFirstIsCacheError ==
    (/\ mode = "cache" /\ hasCache /\ Ended
     /\ ledger # <<>> /\ ~IsInt(ledger[1]))
    => (pc = "failed" /\ error = "CacheError" /\ emitted = <<>>)

\* C8: a replay without a cache fails with CacheError, having read no
\* fragment and emitted no item.
C8_NoCacheIsCacheError ==
    (mode = "cache" /\ ~hasCache)
    => (pc = "failed" /\ error = "CacheError" /\ pos = 0 /\ emitted = <<>>
        /\ log = <<>>)

C8_Witness == mode = "cache" /\ ~hasCache /\ pc = "failed" /\ prev.emitted # <<>>

\* C9: no step of a replay, its first one included, makes a request or
\* purges, pushes to or flushes the cache: the cache and the cache queue
\* stay as they were.
C9_ReplayHasNoEffect ==
    [][mode' = "cache"
         => /\ ledger' = ledger
            /\ cache_queue' = cache_queue
            /\ \A i \in DOMAIN log' : log'[i].op = "emit"]_vars

\* a replay of a non-empty cache has come to its end and has emitted items
C9_Witness ==
    /\ mode = "cache" /\ pc = "done" /\ ledger # <<>> /\ Len(emitted) > 1

\* C10: a second replay of the same cache ends as the first one did: the
\* same items with the same offsets, or the same error after the same number
\* of fragments read.
C10_IdempotentReplay ==
    (mode = "cache" /\ prev.mode = "cache" /\ Ended)
    => /\ emitted = prev.emitted
       /\ pc = prev.pc
       /\ error = prev.error
       /\ pos = prev.pos

\* a second replay has emitted items
C10_Witness ==
    /\ mode = "cache" /\ prev.mode = "cache"
    /\ pc = "done" /\ Len(emitted) > 1

\* ------------------------------------------------- resumption (C2)
\* a source that answers every request: a live run from the start, then a
\* live run from an offset
InitResume ==
    /\ backend \in Backends
    /\ pep479 = "unknown"
    /\ plan = ResumePlan
    /\ total \in Totals
    /\ hasCache \in BOOLEAN
    /\ ledger = <<>>
    /\ InitCall

NextResume ==
    \/ \E k \in Offsets : KitsuneFetchBegin(k)
    \/ KitsunePageOk
    \/ KitsunePageStop
    \/ KitsuneDropQuestion
    \/ KitsuneEmitQuestion
    \/ KitsuneResume
    \/ KitsunePageEnd
    \/ \E k \in Offsets : ReMoFetchBegin(k)
    \/ ReMoPageOk
    \/ ReMoPageStop
    \/ ReMoDropItem
    \/ ReMoEmitItem
    \/ ReMoResume

SpecResume == InitResume /\ [][NextResume]_vars

\* C2: over a source that returns no error, a live fetch from offset
\* k < total emits what a live fetch from offset 0 emits after its first k
\* items: the same items, in the same order, with the same offsets.
C2_ResumptionCorrectness ==
    (/\ mode = "fetch" /\ pc = "done" /\ offset < total
     /\ prev.mode = "fetch" /\ prev.pc = "done" /\ prev.offset = 0)
    => emitted = SubSeq(prev.emitted, offset + 1, Len(prev.emitted))

C2_Witness ==
    /\ mode = "fetch" /\ pc = "done" /\ offset = 25 /\ total = 45
    /\ prev.mode = "fetch" /\ prev.pc = "done" /\ prev.offset = 0
    /\ Len(prev.emitted) = 45 /\ Len(emitted) = 20

\* ------------------------------------------------ the logical offset (C11)
Stamps(items) == [i \in DOMAIN items |-> items[i].offset]

\* the stamps a run whose events are es gives, the logical offset being cur
\* before them: every emission takes the offset and moves it by one, every
\* page request answered 500 moves it by a page
RECURSIVE StampsAlong(_, _)
StampsAlong(es, cur) ==
    IF es = <<>> THEN <<>>
    ELSE IF Head(es).op = "emit"
         THEN <<cur>> \o StampsAlong(Tail(es), cur + 1)
         ELSE IF Head(es).op = "page" /\ Head(es).status = 500
              THEN StampsAlong(Tail(es), cur + 20)
              ELSE StampsAlong(Tail(es), cur)

\* C11 as stated: in a live run the first item emitted is stamped with the
\* offset asked for and every later one with the stamp of the item before it
\* plus 1, whatever the pages, the drops and the outcomes of the page
\* requests were.
C11_StampsGrowByOne ==
    mode = "fetch" =>
        \A i \in DOMAIN emitted : emitted[i].offset = offset + i - 1

\* C11 amended: the stamps start at the offset asked for and grow by 1 from
\* an item to the next, and by 20 more for every page request answered 500
\* before the item: without such an answer they are offset, offset + 1, ...
C11_StampsGrowByOneBetweenSkips ==
    mode = "fetch" =>
        /\ Stamps(emitted) = StampsAlong(log, offset)
        /\ equestions = 0 =>
               \A i \in DOMAIN emitted : emitted[i].offset = offset + i - 1

\* a Kitsune run from the middle of a page emitted items before and after a
\* page lost to a 500 answer
C11_Witness ==
    /\ backend = "kitsune" /\ mode = "fetch" /\ pc = "done" /\ offset = 5
    /\ equestions = 20 /\ Len(emitted) > 15
    /\ emitted[1].offset = 5
    /\ emitted[16].offset = 40

\* ------------------------------------- the cache of a run that stopped (C12)
IsPrefix(a, b) == Len(a) <= Len(b) /\ a = SubSeq(b, 1, Len(a))

\* the live run before this replay failed, or was given up by its caller
PrevStopped == prev.mode = "fetch" /\ prev.pc \in {"failed", "yielded"}

\* C12: a live run that fails, or that its caller stops pulling from, leaves
\* in the cache what it had flushed (failing and being given up change
\* nothing in it), and the replay of that cache ends without error having
\* emitted a prefix of the items the live run had emitted, stamps included.
C12_StoppedRunReplaysPrefix ==
    /\ [][(mode = "fetch" /\ (pc' = "failed" \/ mode' = "cache"))
             => ledger' = ledger]_vars
    /\ []((mode = "cache" /\ hasCache /\ PrevStopped /\ Ended)
             => /\ pc = "done" /\ error = "none"
                /\ IsPrefix(emitted, prev.emitted))

\* the same, for the live runs that lost no page to a 500 answer
StoppedRunReplaysPrefixWithoutSkip ==
    /\ [][(mode = "fetch" /\ (pc' = "failed" \/ mode' = "cache"))
             => ledger' = ledger]_vars
    /\ []((mode = "cache" /\ hasCache /\ PrevStopped /\ prev.lost = 0 /\ Ended)
             => /\ pc = "done" /\ error = "none"
                /\ IsPrefix(emitted, prev.emitted))

\* ---------------------------------------------------- termination (C13)
\* C13: a live run whose caller keeps pulling reaches Done or Failed, whatever
\* the source holds and whatever the page requests are answered, 500 to every
\* one of them included.
C13_Termination == <>(pc \in {"done", "failed"})

\* a live run ends, or loses page after page to 500 answers
TerminationUnlessPagesKeepFailing ==
    <>(pc \in {"done", "failed"} \/ equestions >= MaxSkips * 20)

\* ------------------------------------------ the offset of a skip (C14)
\* C14: a live Kitsune run that skips a page after a 500 answer pushes an
\* OffsetMarker with the new logical offset, ahead of the next page payload,
\* and so the replay of its cache stamps the items after the skip as the live
\* run did.
C14_SkipRecordsOffset ==
    /\ [][(backend = "kitsune" /\ mode = "fetch" /\ mode' = "fetch"
           /\ PageAnswered(500))
             => /\ cache_queue' # <<>>
                /\ Last(cache_queue') = OffsetMarker(current_offset + 20)]_vars
    /\ []((/\ backend = "kitsune" /\ mode = "cache" /\ hasCache /\ Ended
           /\ prev.mode = "fetch" /\ prev.pc = "done" /\ prev.lost > 0)
             => (pc = "done" /\ emitted = prev.emitted))

\* ----------------------------------------------- the checkpoint (C15)
\* the items whose fragments are all in the cache: a Kitsune question is
\* closed by its end mark, a ReMo item is its one payload
StoredItems ==
    Len(SelectSeq(ledger, LAMBDA f :
            f.kind = (IF backend = "kitsune" THEN "end" ELSE "item")))

\* C15: in a live run with a cache, when an item is emitted the fragments of
\* every item emitted before it are in the cache: a run that stops between
\* two items has all but its last item there.
C15_ItemCheckpoint ==
    (mode = "fetch" /\ hasCache) => StoredItems >= Len(emitted) - 1

\* the same for ReMo, which flushes after every item
ItemCheckpointReMo ==
    (backend = "remo" /\ mode = "fetch" /\ hasCache)
        => StoredItems >= Len(emitted) - 1

\* Kitsune flushes after every page: the questions of the pages before the
\* current one are in the cache
PageCheckpointKitsune ==
    (backend = "kitsune" /\ mode = "fetch" /\ hasCache)
        => StoredItems >= Len(emitted) - 20

\* ------------------------------------------- the cache is a prefix (C16)
\* the fragments pushed so far in this run, in push order
Pushes ==
    LET ps == SelectSeq(log, LAMBDA e : e.op = "push")
    IN  [i \in DOMAIN ps |-> ps[i].arg]

\* C16: in every state of a live run the cache is a prefix of the fragments
\* pushed so far in the run, in push order (nothing reordered, merged,
\* duplicated or left out), and a cache that is not empty starts with the
\* OffsetMarker of the offset asked for.
C16_LedgerIsPrefixOfPushes ==
    mode = "fetch" =>
        /\ IsPrefix(ledger, Pushes)
        /\ ledger \o cache_queue = IF hasCache THEN Pushes ELSE cache_queue
        /\ ledger # <<>> => ledger[1] = OffsetMarker(offset)

\* a ReMo run from the middle of a page has flushed twice and has pushed a
\* fragment since
C16_Witness ==
    /\ backend = "remo" /\ mode = "fetch" /\ hasCache /\ offset = 5
    /\ Len(ledger) = 4 /\ Len(Pushes) = 5
    /\ ledger[1] = OffsetMarker(5)
    /\ ledger[2].kind = "page" /\ ledger[3].kind = "item" /\ ledger[4].kind = "item"

\* ------------------------------------ the shape of a Kitsune cache (C17)
\* the answers fragments of question q that l holds from position i on
RECURSIVE AnswersRun(_, _, _)
AnswersRun(l, i, q) ==
    IF i <= Len(l) /\ l[i].kind = "answers" /\ l[i].value = q
    THEN 1 + AnswersRun(l, i + 1, q)
    ELSE 0

\* l, from position i on, is the rest of a page group whose results qs are
\* still to come, followed by page groups: a page payload opens a group for
\* the results of the page that were not dropped (its last ones); every one
\* of them has its answers fragments, one at least, and then its end mark
RECURSIVE GroupsFrom(_, _, _)
GroupsFrom(l, i, qs) ==
    IF i > Len(l) THEN qs = <<>>
    ELSE IF l[i].kind = "page"
    THEN /\ qs = <<>>
         /\ \E d \in 0..Len(l[i].results) :
                GroupsFrom(l, i + 1, SubSeq(l[i].results, d + 1, Len(l[i].results)))
    ELSE /\ qs # <<>>
         /\ LET n == AnswersRun(l, i, Head(qs)) IN
                /\ n >= 1
                /\ i + n <= Len(l)
                /\ l[i + n] = EndOfItem
                /\ GroupsFrom(l, i + n + 1, Tail(qs))

\* the questions a cache holds, in order: one for every last answers page
CachedQuestions(l) ==
    LET last == SelectSeq(l, LAMBDA f : f.kind = "answers" /\ ~f.next)
    IN  [j \in DOMAIN last |-> last[j].value]

\* C17: the cache a live Kitsune run writes is, in every state, an
\* OffsetMarker followed by page groups: a page payload, then for every result
\* of the page that was not dropped, in page order, its answers fragments (one
\* or more) and one end mark; the fragments of two questions do not mix and
\* no question is left without its end mark.  Before the first flush the
\* cache holds nothing.
C17_KitsuneLedgerWellFormed ==
    (backend = "kitsune" /\ runs # <<>> /\ runs[1] = "fetch" /\ ledger # <<>>)
    =>  /\ IsInt(ledger[1])
        /\ GroupsFrom(ledger, 2, <<>>)
        /\ mode = "fetch" =>
               IsPrefix(CachedQuestions(ledger), [j \in DOMAIN emitted |-> emitted[j].id])

\* a run from the middle of the first page has flushed two pages
C17_Witness ==
    /\ backend = "kitsune" /\ mode = "fetch" /\ pc = "done" /\ hasCache
    /\ offset = 5 /\ total = 25 /\ equestions = 0
    /\ Len(SelectSeq(ledger, LAMBDA f : f.kind = "page")) = 2
    /\ Len(SelectSeq(ledger, LAMBDA f : f = EndOfItem)) = 20

\* ------------------------------------------- the order of requests (C18)
NoItem == -1

\* q and what follows it in qs
RECURSIVE From(_, _)
From(qs, q) ==
    IF qs = <<>> \/ Head(qs) = q THEN qs ELSE From(Tail(qs), q)

\* the events es of a run keep the order of requests; before them lastPage
\* is the last page asked for, closed says that a page without a next page
\* was received, cur are the results of the page received last that are still
\* to come and open is the item whose details were asked for and that is not
\* emitted yet:
\*  - a page is asked for with no item open, after no page without a next
\*    page, and its number is higher than lastPage;
\*  - details are asked for an item of the page received last, the open one
\*    or, with no item open, one that comes after the items asked before;
\*  - an item is emitted once its details were asked for.
RECURSIVE InOrder(_, _, _, _, _)
InOrder(es, lastPage, closed, cur, open) ==
    IF es = <<>> THEN TRUE
    ELSE LET e == Head(es) IN
        IF e.op = "page"
        THEN /\ open = NoItem /\ ~closed /\ e.arg > lastPage
             /\ IF e.status = 200
                THEN InOrder(Tail(es), e.arg, ~PagePayload(e.arg, total).next,
                             PagePayload(e.arg, total).results, NoItem)
                ELSE InOrder(Tail(es), e.arg, closed, <<>>, NoItem)
        ELSE IF e.op = "detail"
        THEN /\ open \in {NoItem, e.arg}
             /\ From(cur, e.arg) # <<>>
             /\ InOrder(Tail(es), lastPage, closed, From(cur, e.arg), e.arg)
        ELSE IF e.op = "emit"
        THEN /\ open # NoItem
             /\ InOrder(Tail(es), lastPage, closed, Tail(cur), NoItem)
        ELSE InOrder(Tail(es), lastPage, closed, cur, open)

\* C18: in a live run the pages are asked for in strictly increasing order,
\* the first one being floor(offset / 20) + 1, none after a page without a
\* next page; the details of an item are asked for after its page was
\* received, before those of the next item and before the next page, and
\* nothing is asked for the next item before the item is emitted.
C18_RequestOrder ==
    /\ translation.done =>
           translation.first = WidePlus(Quotient(wideOffset), Wide(1))
    /\ mode = "fetch" =>
           /\ PageRequests # <<>> => PageRequests[1].arg = (offset \div 20) + 1
           /\ InOrder(log, 0, FALSE, <<>>, NoItem)

\* the same for the live runs explored, whose offsets are far below the size
\* at which the float quotient is rounded to the next integer
RequestOrderOfSmallOffsets ==
    mode = "fetch" =>
        /\ PageRequests # <<>> => PageRequests[1].arg = (offset \div 20) + 1
        /\ InOrder(log, 0, FALSE, <<>>, NoItem)

\* ------------------------------------------------------ the drops (C19)
\* this step of a live run passes over a result of the page without emitting
\* it and without failing
SkipsResult ==
    /\ mode = "fetch" /\ mode' = "fetch"
    /\ questions # <<>> /\ questions' = Tail(questions)
    /\ emitted' = emitted
    /\ pc' # "failed"

\* C19: a result skipped by the drop counter is not emitted, has no request
\* made for it, puts nothing in the cache nor in its queue and leaves the
\* logical offset where it is; a run from offset k skips at most k mod 20
\* results, all of them before the first item it emits, and none once the
\* counter is 0.
C19_DropHandling ==
    /\ [][SkipsResult
             => /\ drop_questions > 0 /\ drop_questions' = drop_questions - 1
                /\ dropped' = dropped + 1
                /\ log' = log
                /\ cache_queue' = cache_queue /\ ledger' = ledger
                /\ current_offset' = current_offset]_vars
    /\ [][(mode = "fetch" /\ mode' = "fetch" /\ (emitted # <<>> \/ drop_questions = 0))
             => (dropped' = dropped /\ ~SkipsResult)]_vars
    /\ [](mode = "fetch" =>
             /\ dropped <= offset % 20
             /\ dropped + drop_questions = offset % 20
             /\ emitted # <<>> => drop_questions = 0)

\* a run from the last result of a page skipped 19 results and went on to
\* emit the items of two pages
C19_Witness ==
    /\ mode = "fetch" /\ pc = "done" /\ offset = 19
    /\ dropped = 19 /\ Len(emitted) > 20

\* ------------------------------------------- caches of several runs (C20)
\* what a live run pushes for the results it does not drop: the answers
\* pages of a question and their end mark, or the detail of an item
Details(b, qs) ==
    IF b = "kitsune"
    THEN LET RECURSIVE Each(_)
             Each(rest) ==
                 IF rest = <<>> THEN <<>>
                 ELSE AnswersPages(Head(rest), AnswerPages(Head(rest)))
                      \o <<EndOfItem>> \o Each(Tail(rest))
         IN  Each(qs)
    ELSE [i \in DOMAIN qs |-> ItemPayload(qs[i])]

\* the fragments of page p and of the pages after it, in a run from offset k
\* over n items that met no error
RECURSIVE PagesFrom(_, _, _, _)
PagesFrom(b, p, k, n) ==
    LET pg == PagePayload(p, n)
        kept == SelectSeq(pg.results, LAMBDA q : q >= k)
    IN  <<pg>> \o Details(b, kept)
        \o (IF pg.next THEN PagesFrom(b, p + 1, k, n) ELSE <<>>)

\* the cache a live run from offset k over n items leaves when it meets no
\* error and is pulled to its end. Kitsune flushes after every page; ReMo
\* flushes after every item it emits, so that a ReMo run that emits nothing
\* leaves nothing
RunLedger(b, k, n) ==
    IF b = "kitsune"
    THEN <<OffsetMarker(k)>> \o PagesFrom(b, KitsuneFirstPage(k), k, n)
    ELSE IF k >= n THEN <<>>
    ELSE <<OffsetMarker(k)>> \o PagesFrom(b, ReMoFirstPage(k), k, n)

\* it is the cache such a run leaves
RunLedgerIsLedgerOfRun ==
    (mode = "fetch" /\ pc = "done" /\ equestions = 0 /\ hasCache)
    => ledger = RunLedger(backend, offset, total)

\* the sources behind the caches of several runs
JoinTotals == {t \in Totals : t % ITEMS_PER_PAGE # 0}
\* one replay
JoinPlan == <<Replay>>

\* a cache that holds what one run left, or what a run from offset a left
\* followed by what a run from offset b left
InitJoin ==
    /\ backend \in Backends
    /\ pep479 = "unknown"
    /\ plan = JoinPlan
    /\ total \in JoinTotals
    /\ hasCache = TRUE
    /\ \E a \in Offsets :
          \/ ledger = RunLedger(backend, a, total)
          \/ \E b \in Offsets :
                ledger = RunLedger(backend, a, total) \o RunLedger(backend, b, total)
    /\ InitCall

\* the steps of a replay that reads fragments where it expects them
NextJoin ==
    \/ KitsuneCacheBegin
    \/ KitsuneCachePage
    \/ KitsuneCacheEnd
    \/ KitsuneCacheDrop
    \/ KitsuneCacheEmit
    \/ KitsuneCacheResume
    \/ ReMoCacheBegin
    \/ ReMoCacheSkip
    \/ ReMoCacheEmit
    \/ ReMoCacheEnd
    \/ ReMoCacheResume

SpecJoin == InitJoin /\ [][NextJoin]_vars

\* the offsets the cache holds, in order
Markers == SelectSeq(ledger, IsInt)

\* what the replay of the cache of a run from offset k emits
Replayed(b, k, n) ==
    [i \in 1..(IF n > k THEN n - k ELSE 0) |->
        LET q == k + i - 1 IN
        Item(q, q, IF b = "kitsune" THEN Flatten(AnswersPages(q, AnswerPages(q)))
                   ELSE <<>>)]

RECURSIVE ReplayedAll(_)
ReplayedAll(ms) ==
    IF ms = <<>> THEN <<>>
    ELSE Replayed(backend, Head(ms).value, total) \o ReplayedAll(Tail(ms))

\* the replay is in its loop over the cache and the next fragment is an offset
AtMarker ==
    /\ mode = "cache" /\ pc = "cacheloop"
    /\ pos < Len(ledger) /\ IsInt(ledger[pos + 1])

\* the replay has something to read that it cannot go on from
Stuck ==
    /\ mode = "cache"
    /\ \/ /\ pc = "cacheloop" /\ pos < Len(ledger)
          /\ \/ backend = "kitsune"
                /\ KitsuneCacheStep(ledger, pos, current_offset, drop_questions).res # "ok"
             \/ backend = "remo"
                /\ ReMoCacheStep(ledger, pos, current_offset).res \notin {"skip", "emit"}
       \/ /\ pc = "cachequestions" /\ questions # <<>>
          /\ \/ drop_questions = Unbound
             \/ drop_questions <= 0 /\ GetAnswers(ledger, pos, <<>>).error # "none"

InitParse ==
    /\ backend \in Backends
    /\ pep479 = "unknown"
    /\ plan = PullPlan
    /\ total \in Totals
    /\ hasCache = TRUE
    /\ ledger = <<>>
    /\ InitCall

NextParse ==
    \/ KitsuneFetch
    \/ \E flaw \in PageFlaws : KitsunePageMalformed(flaw)
    \/ KitsunePageNoNext
    \/ KitsunePullKeyError
    \/ \E nok \in 0..1, flaw \in AnswersFlaws : KitsuneAnswersMalformed(nok, flaw)
    \/ ReMoFetch
    \/ \E flaw \in PageFlaws : ReMoPageMalformed(flaw)
    \/ ReMoPageNoNext
    \/ ReMoPullKeyError
    \/ ReMoItemMalformed

SpecParse == InitParse /\ [][NextParse]_vars

\* the malformed payloads the run was given
MalformedPushes == SelectSeq(Pushes, IsMalformed)

\* C21: a live run that is given a page payload or a detail payload that is
\* no JSON text or lacks 'count', 'results' or 'next' ends in Failed with
\* ParseError and no other error; the cache never holds such a payload.
C21_ParseFailuresAreNamed ==
    mode = "fetch" =>
        /\ (Ended /\ MalformedPushes # <<>>) => (pc = "failed" /\ error = "ParseError")
        /\ \A i \in DOMAIN ledger : ~IsMalformed(ledger[i])

\* what the code does: ParseError is raised only for a page of questions
\* that is no JSON text or has no 'count' or no 'results'; such a page ends
\* the run at once and is never flushed
KitsunePageParseErrorIsNamed ==
    (backend = "kitsune" /\ mode = "fetch") =>
        \A i \in DOMAIN log :
            (log[i].op = "push" /\ log[i].arg.kind \in PageFlaws
             /\ log[i - 1].op = "page")
            => /\ i = Len(log)
               /\ pc = "failed" /\ error = "ParseError"
               /\ \A j \in DOMAIN ledger : ledger[j] # log[i].arg

\* ------------------------------------------------- classification (C22)
InitClassify ==
    /\ backend = "remo"
    /\ pep479 = "unknown"
    /\ plan = <<>>
    /\ total = 0
    /\ hasCache = FALSE
    /\ ledger = <<>>
    /\ InitCall

NextClassify ==
    \/ PickItem
    \/ Classify

SpecClassify == InitClassify /\ [][NextClassify]_vars

\* C22: the category of a ReMo item is decided by the fields it has, looked
\* for in this order: 'estimated_attendance' gives 'event', else 'activity'
\* gives 'activity', else 'first_name' gives 'user', else the classification
\* fails with an error and returns no category; the category the fetch was
\* started with plays no part.
C22_ClassificationByFields ==
    classified.done =>
        LET item == classified.item
            ea == "estimated_attendance" \in item
            ac == "activity" \in item
            fn == "first_name" \in item
            ok(c) == classified.category = c /\ classified.error = "none"
        IN  /\ ea => ok("event")
            /\ (~ea /\ ac) => ok("activity")
            /\ (~ea /\ ~ac /\ fn) => ok("user")
            /\ (~ea /\ ~ac /\ ~fn) =>
                   (classified.category = NoCategory /\ classified.error # "none")

\* an item that has the three fields, out of a fetch of users, is an event
C22_Witness ==
    /\ classified.done
    /\ {"estimated_attendance", "activity", "first_name"} \subseteq classified.item
    /\ classified.selector = "users"
    /\ classified.category = "event"

\* ------------------------------------------- the category of a fetch (C23)
\* the categories a fetch is started with: the supported ones, the name of
\* an item category, and the category of the other backend
Categories == supported_categories \cup {"event", "questions"}
\* the sources behind these runs
CategoryTotals == {5, ITEMS_PER_PAGE + 5}

\* a ReMo live run of the default category, then one of a given category
InitCategory ==
    /\ backend = "remo"
    /\ pep479 = "unknown"
    /\ \E c \in Categories :
           plan = <<Fetch({DEFAULT_OFFSET}), FetchAs(c, {DEFAULT_OFFSET, 5})>>
    /\ total \in CategoryTotals
    /\ hasCache = TRUE
    /\ ledger = <<>>
    /\ InitCall

NextCategory ==
    \/ ReMoFetch
    \/ \E k \in Offsets : ReMoFetchUnsupported(k)

SpecCategory == InitCategory /\ [][NextCategory]_vars

\* the category the running call was started with
CallCategory == CategoryOf(plan[Len(runs)])

\* C23: a ReMo live fetch started with a category other than 'activities',
\* 'events' or 'users' fails before any effect: it makes no request, does not
\* purge the cache queue, pushes no offset, flushes nothing and emits no item.
C23_UnsupportedCategoryHasNoEffect ==
    /\ [][(/\ backend = "remo" /\ mode' = "fetch"
           /\ Len(runs') = Len(runs) + 1
           /\ CategoryOf(plan[Len(runs')]) \notin supported_categories)
             => /\ pc' = "failed" /\ error' = "ValueError"
                /\ cache_queue' = cache_queue
                /\ ledger' = ledger
                /\ log' = <<>>
                /\ emitted' = <<>>]_vars
    /\ []((/\ backend = "remo" /\ mode = "fetch" /\ runs # <<>>
           /\ CallCategory \notin supported_categories)
             => (pc = "failed" /\ error = "ValueError" /\ log = <<>> /\ emitted = <<>>))

\* a fetch of 'questions' has failed and has left the queue and the cache as
\* the run before it, which failed on a request, had left them
C23_Witness ==
    /\ backend = "remo" /\ mode = "fetch" /\ Len(runs) = 2
    /\ CallCategory = "questions"
    /\ pc = "failed" /\ error = "ValueError"
    /\ prev.pc = "failed" /\ prev.error = "HTTPError"
    /\ cache_queue # <<>> /\ ledger # <<>>
    /\ log = <<>>

====
